---- MODULE Spec2Model ----
(***************************************************************************)
(* Reading tracker: the favorites document (backend/json_storage.py) and   *)
(* the reading streak kept in the users table (backend/database.py).       *)
(*                                                                         *)
(*   Spec        the json_storage operations, each call run to completion  *)
(*   SpecConc    the same operations called from two request threads, at   *)
(*               the granularity of their file accesses (load, open, dump) *)
(*   SpecStreak  register_user / update_reading_streak /                   *)
(*               get_user_streak_data over a calendar                      *)
(*   SpecShelf   the routes of app.py that list and remove favorites, on   *)
(*               collections of up to NumShelf books                       *)
(*   SpecProgress  POST /update_favorite_page: the page update, then the   *)
(*               streak update, with a crash between the two               *)
(*   SpecStores  one json_storage call and any update_reading_streak       *)
(*               calls, both stores holding data                           *)
(*   SpecAdd     POST /add_favorite and the other routes that write the    *)
(*               file, on files missing, written, cut short or unreadable  *)
(*   SpecRace    update_reading_streak called from two request threads,    *)
(*               at the granularity of its read and its write              *)
(***************************************************************************)
EXTENDS Integers, Sequences, FiniteSets, TLC

VARIABLES
    favorites_json,   \* the file at FAVORITES_JSON_PATH: [status, data]
    last,             \* the call that ran last, its arguments and its outcome
    ncalls,           \* calls made so far (bounded by MaxCalls)
    pc,               \* SpecConc, SpecRace: where each request thread stands
    call,             \* SpecConc, SpecRace: the call each thread is running
    all_favorites,    \* SpecConc: each thread's local all_favorites
    overlapped,       \* SpecConc: a third call finished while this one was kept
    users,            \* rows of the users table: id -> streak columns
    clock,            \* the system date, as a day number
    route,            \* SpecProgress: the POST /update_favorite_page in progress
    crash_free        \* SpecProgress: the users table of the run without the crash

vars == <<favorites_json, last, ncalls, pc, call, all_favorites, overlapped,
          users, clock, route, crash_free>>

-----------------------------------------------------------------------------
(* Bounds *)

NumUsers == 2
NumIsbns == 2
MaxCalls == 3
MaxConcCalls == 2
NumAccounts == 1
NumDays == 4
FirstDay == 738943
NumShelf == 3

UserIds == 1..NumUsers
Isbns == {"isbn" \o ToString(i) : i \in 1..NumIsbns}
\* sample values of the two fields a record gains after it is created
Pages == {0, 120}
Notes == {"a note"}
\* two request threads
Threads == {1, 2}

\* book_details as the caller builds it: the five keys of add_favorite
BookDetails(isbn, v) ==
    [title |-> "title" \o ToString(v),
     author |-> "author" \o ToString(v),
     isbn |-> isbn,
     publication_year |-> ToString(2000 + v),
     category |-> "category" \o ToString(v)]

\* two search results per ISBN, differing in every other field
Books == {BookDetails(i, v) : i \in Isbns, v \in {1, 2}}

RECURSIVE ListOf(_)
ListOf(S) == IF S = {} THEN << >>
             ELSE LET x == CHOOSE y \in S : TRUE IN <<x>> \o ListOf(S \ {x})

\* the selected_isbns lists a caller can pass
SelectedLists == {ListOf(S) : S \in SUBSET Isbns}

-----------------------------------------------------------------------------
(* The favorites document *)

\* {} : a dict with no key
EmptyDict == [k \in {} |-> << >>]

\* Python's None where the code expects an integer id or a date
None == 0

\* str(user_id)
Str(user_id) == IF user_id = None THEN "None" ELSE ToString(user_id)

\* favorites.json before the first write
NoFile == [status |-> "missing", data |-> EmptyDict]

\* a file json.load cannot decode: of length 0 right after open(.., 'w'),
\* or holding a partly written or overwritten document
EmptyFile == [status |-> "empty", data |-> EmptyDict]
CorruptFile == [status |-> "corrupt", data |-> EmptyDict]

\* a file that open(FAVORITES_JSON_PATH, 'r') or the read cannot get at
Unreadable(data) == [status |-> "unreadable", data |-> data]

\* the exception raised inside the try of load_all_favorites
ReadException(file) ==
    IF file.status = "unreadable" THEN "IOError"
    ELSE IF file.status \in {"empty", "corrupt"} THEN "JSONDecodeError"
    ELSE "none"

\* load_all_favorites with no except clause for IOError
CaughtDecodeErrorOnly == {"JSONDecodeError"}

\* except json.JSONDecodeError ... except IOError
CaughtOnRead == {"JSONDecodeError", "IOError"}

\* what leaves a try statement that raised exc and catches `caught`
Escapes(exc, caught) == IF exc \in caught THEN "none" ELSE exc

\* the exception load_all_favorites raises to its caller, "none" for none
load_all_favorites_raises(file) ==
    IF file.status = "missing" THEN "none"
    ELSE Escapes(ReadException(file), CaughtOnRead)

\* the dict load_all_favorites returns
load_all_favorites(file) ==
    IF file.status = "missing" THEN EmptyDict
    ELSE IF ReadException(file) # "none" THEN EmptyDict
    ELSE file.data

load_user_favorites(file, user_id) ==
    LET all == load_all_favorites(file)
    IN IF Str(user_id) \in DOMAIN all THEN all[Str(user_id)] ELSE << >>

\* dict[key] = value
SetKey(dict, key, value) ==
    [k \in DOMAIN dict \union {key} |-> IF k = key THEN value ELSE dict[k]]

\* key in dict
HasKey(dict, key) == key \in DOMAIN dict

\* index of the first book with this ISBN, 0 when there is none
FirstIndex(books, isbn) ==
    IF \E i \in 1..Len(books) : books[i].isbn = isbn
    THEN CHOOSE i \in 1..Len(books) :
            /\ books[i].isbn = isbn
            /\ \A j \in 1..(i - 1) : books[j].isbn # isbn
    ELSE 0

\* with open(FAVORITES_JSON_PATH, 'w') as file: json.dump(all, file)
\*   "ok"         the document is rewritten
\*   "open_error" open raises IOError: the file is as before
\*   "dump_error" open truncated the file, the dump raised IOError
WriteOutcomes == {"ok", "open_error", "dump_error"}

write_file(file, all, outcome) ==
    IF outcome = "ok" THEN [status |-> "ok", data |-> all]
    ELSE IF outcome = "open_error" THEN file
    ELSE CorruptFile

\* Each operation below gives the in-memory all_favorites it ends with and
\* whether it goes on to rewrite the file.

\* save_favorite without its check for an existing book
save_favorite_always_appends(all, user_id, book_details) ==
    LET key == Str(user_id)
        all1 == IF ~HasKey(all, key) THEN SetKey(all, key, << >>) ELSE all
    IN [all |-> SetKey(all1, key, Append(all1[key], book_details)), writes |-> TRUE]

\* save_favorite replacing the record it finds by the new book_details
save_favorite_overwrites(all, user_id, book_details) ==
    LET key == Str(user_id)
        all1 == IF ~HasKey(all, key) THEN SetKey(all, key, << >>) ELSE all
        existing_book == FirstIndex(all1[key], book_details.isbn)
    IN [all |-> SetKey(all1, key,
                   IF existing_book = 0 THEN Append(all1[key], book_details)
                   ELSE [all1[key] EXCEPT ![existing_book] = book_details]),
        writes |-> TRUE]

save_favorite_mem(all, user_id, book_details) ==
    LET key == Str(user_id)
        all1 == IF ~HasKey(all, key) THEN SetKey(all, key, << >>) ELSE all
        existing_book == FirstIndex(all1[key], book_details.isbn)
    IN IF existing_book = 0
       THEN [all |-> SetKey(all1, key, Append(all1[key], book_details)),
             writes |-> TRUE]
       ELSE [all |-> all1, writes |-> FALSE]

save_favorite_learning_mem(all, user_id, book_isbn, learning) ==
    LET key == Str(user_id)
    IN IF HasKey(all, key)
       THEN LET i == FirstIndex(all[key], book_isbn)
            IN [all |-> IF i = 0 THEN all
                        ELSE SetKey(all, key,
                                 [all[key] EXCEPT ![i] = SetKey(@, "learning", learning)]),
                writes |-> TRUE]
       ELSE [all |-> all, writes |-> FALSE]

\* remove_favorites testing each book against the first selected ISBN only
remove_favorites_first_only(all, user_id, selected_isbns) ==
    LET key == Str(user_id)
        Keep(book) == selected_isbns = << >> \/ selected_isbns[1] # book.isbn
    IN IF HasKey(all, key)
       THEN [all |-> SetKey(all, key, SelectSeq(all[key], Keep)), writes |-> TRUE]
       ELSE [all |-> all, writes |-> FALSE]

remove_favorites_mem(all, user_id, selected_isbns) ==
    LET key == Str(user_id)
        Keep(book) == \A j \in 1..Len(selected_isbns) : selected_isbns[j] # book.isbn
    IN IF HasKey(all, key)
       THEN [all |-> SetKey(all, key, SelectSeq(all[key], Keep)), writes |-> TRUE]
       ELSE [all |-> all, writes |-> FALSE]

\* update_favorite_page adding a record when it finds none
update_favorite_page_inserts(all, user_id, book_isbn, current_page) ==
    LET key == Str(user_id)
    IN IF HasKey(all, key)
       THEN LET i == FirstIndex(all[key], book_isbn)
            IN [all |-> SetKey(all, key,
                          IF i = 0
                          THEN Append(all[key], [isbn |-> book_isbn,
                                                 current_page |-> current_page])
                          ELSE [all[key] EXCEPT ![i] =
                                   SetKey(@, "current_page", current_page)]),
                writes |-> TRUE]
       ELSE [all |-> all, writes |-> FALSE]

\* update_favorite_page storing a fresh record in place of the one it found
update_favorite_page_replaces(all, user_id, book_isbn, current_page) ==
    LET key == Str(user_id)
    IN IF HasKey(all, key)
       THEN LET i == FirstIndex(all[key], book_isbn)
            IN [all |-> IF i = 0 THEN all
                        ELSE SetKey(all, key,
                                 [all[key] EXCEPT ![i] =
                                    [isbn |-> book_isbn, title |-> @.title,
                                     current_page |-> current_page]]),
                writes |-> TRUE]
       ELSE [all |-> all, writes |-> FALSE]

update_favorite_page_mem(all, user_id, book_isbn, current_page) ==
    LET key == Str(user_id)
    IN IF HasKey(all, key)
       THEN LET i == FirstIndex(all[key], book_isbn)
            IN [all |-> IF i = 0 THEN all
                        ELSE SetKey(all, key,
                                 [all[key] EXCEPT ![i] = SetKey(@, "current_page", current_page)]),
                writes |-> TRUE]
       ELSE [all |-> all, writes |-> FALSE]

\* the exception the write raises, "none" when it raises nothing
WriteException(outcome) == IF outcome = "ok" THEN "none" ELSE "IOError"

\* except IOError as e: logging.error(...)
CaughtOnWrite == {"IOError"}

\* Python's None, True and False as values a function returns
PyNone == "None"
PyTrue == "True"
PyFalse == "False"

\* the four operations returning whether they found the book
returns_found(found, wrote) == IF found THEN PyTrue ELSE PyFalse

\* No operation has a return statement: each returns None, whether it found
\* the book or not and however its write ended.
json_storage_returns(found, wrote) == PyNone

\* the four write operations as calls: [op, user_id, arg1, arg2]
SaveCalls == {[op |-> "save_favorite", user_id |-> u, book |-> b] :
                u \in UserIds, b \in Books}
LearningCalls == {[op |-> "save_favorite_learning", user_id |-> u, isbn |-> i, learning |-> n] :
                u \in UserIds, i \in Isbns, n \in Notes}
RemoveCalls == {[op |-> "remove_favorites", user_id |-> u, selected |-> s] :
                u \in UserIds, s \in SelectedLists}
PageCalls == {[op |-> "update_favorite_page", user_id |-> u, isbn |-> i, page |-> p] :
                u \in UserIds, i \in Isbns, p \in Pages}

\* the in-memory part of a call
Mem(c, all) ==
    IF c.op = "save_favorite" THEN save_favorite_mem(all, c.user_id, c.book)
    ELSE IF c.op = "save_favorite_learning"
         THEN save_favorite_learning_mem(all, c.user_id, c.isbn, c.learning)
    ELSE IF c.op = "remove_favorites"
         THEN remove_favorites_mem(all, c.user_id, c.selected)
    ELSE update_favorite_page_mem(all, c.user_id, c.isbn, c.page)

\* a whole call on the file, its write ending as `outcome`
Run(c, file, outcome) ==
    LET r == Mem(c, load_all_favorites(file))
    IN IF r.writes THEN write_file(file, r.all, outcome) ELSE file

\* what `last` records of a finished call
Done(c, file, outcome) ==
    LET wrote == IF Mem(c, load_all_favorites(file)).writes THEN outcome ELSE "none"
        isbn == IF c.op = "save_favorite" THEN c.book.isbn
                ELSE IF c.op = "remove_favorites" THEN ""
                ELSE c.isbn
        found == FirstIndex(load_user_favorites(file, c.user_id), isbn) # 0
    IN [call |-> c,
        wrote |-> wrote,
        again |-> (last.call.op = c.op /\ last.call = c /\ last.wrote \in {"ok", "none"}),
        returned |-> json_storage_returns(found, wrote),
        raised |-> IF wrote = "none" THEN "none"
                   ELSE Escapes(WriteException(wrote), CaughtOnWrite)]

StoreUnchanged ==
    UNCHANGED <<pc, call, all_favorites, overlapped, users, clock, route, crash_free>>

\* a call of json_storage that also counts as reading activity
handler_records_activity(c) ==
    \E outcome \in WriteOutcomes :
        /\ favorites_json' = Run(c, favorites_json, outcome)
        /\ last' = Done(c, favorites_json, outcome)
        /\ ncalls' = ncalls + 1
        /\ users' = [u \in DOMAIN users |->
                        IF u = c.user_id
                        THEN [users[u] EXCEPT !.current_streak = @ + 1]
                        ELSE users[u]]
        /\ UNCHANGED <<pc, call, all_favorites, overlapped, clock, route, crash_free>>

\* the call c runs from its load to its return
Handler(c) ==
    \E outcome \in WriteOutcomes :
        /\ favorites_json' = Run(c, favorites_json, outcome)
        /\ last' = Done(c, favorites_json, outcome)
        /\ ncalls' = ncalls + 1
        /\ StoreUnchanged

save_favorite ==
    /\ ncalls < MaxCalls
    /\ \E c \in SaveCalls : Handler(c)

save_favorite_learning ==
    /\ ncalls < MaxCalls
    /\ \E c \in LearningCalls : Handler(c)

remove_favorites ==
    /\ ncalls < MaxCalls
    /\ \E c \in RemoveCalls : Handler(c)

update_favorite_page ==
    /\ ncalls < MaxCalls
    /\ \E c \in PageCalls : Handler(c)

NoCall == [call |-> [op |-> "-"], wrote |-> "-", again |-> FALSE]

\* a record saved, then annotated with a page and a note
SeedFile ==
    LET b == BookDetails("isbn1", 1)
        c1 == [op |-> "save_favorite", user_id |-> 1, book |-> b]
        c2 == [op |-> "update_favorite_page", user_id |-> 1, isbn |-> b.isbn, page |-> 120]
        c3 == [op |-> "save_favorite_learning", user_id |-> 1, isbn |-> b.isbn,
               learning |-> "a note"]
    IN Run(c3, Run(c2, Run(c1, NoFile, "ok"), "ok"), "ok")

NoThreads ==
    /\ pc = [t \in Threads |-> "idle"]
    /\ call = [t \in Threads |-> NoCall]
    /\ all_favorites = [t \in Threads |-> EmptyDict]
    /\ overlapped = [t \in Threads |-> FALSE]

NoUsers ==
    /\ users = << >>
    /\ clock = 0

\* no request is in progress
Idle == [pc |-> "idle"]

NoCrash == [users |-> << >>, crashed |-> 0, day |-> 0, later |-> "none"]

NoRequest ==
    /\ route = Idle
    /\ crash_free = NoCrash

\* The file does not exist yet; or it holds SeedFile, whose history counts
\* as two calls made.
Init ==
    /\ \/ favorites_json = NoFile /\ ncalls = 0
       \/ favorites_json = SeedFile /\ ncalls = 2
    /\ last = NoCall
    /\ NoThreads
    /\ NoUsers
    /\ NoRequest

Next ==
    \/ save_favorite
    \/ save_favorite_learning
    \/ remove_favorites
    \/ update_favorite_page

Spec == Init /\ [][Next]_vars

-----------------------------------------------------------------------------
(* Properties of the operations, one call at a time (Spec) *)

\* the ISBNs of a collection
HasIsbn(books, isbn) == FirstIndex(books, isbn) # 0

\* two records agree on every key but `field`
SameButField(r1, r2, field) ==
    /\ DOMAIN r1 \ {field} = DOMAIN r2 \ {field}
    /\ \A f \in DOMAIN r1 \ {field} : r1[f] = r2[f]

\* between two files, the only change is to `field` of the first record of
\* user_id with this ISBN
OnlyFieldChanged(before, after, user_id, isbn, field) ==
    LET all == load_all_favorites(before)
        all2 == load_all_favorites(after)
    IN /\ DOMAIN all2 = DOMAIN all
       /\ \A k \in DOMAIN all :
            /\ Len(all2[k]) = Len(all[k])
            /\ \A j \in 1..Len(all[k]) :
                 IF k = Str(user_id) /\ j = FirstIndex(all[k], isbn)
                 THEN SameButField(all[k][j], all2[k][j], field)
                 ELSE all2[k][j] = all[k][j]

\* C4: Idempotent upsert. A save_favorite(u, b) that directly follows a
\* completed save_favorite(u, b) leaves the file as the first call left it:
\* calling twice gives the collection that calling once gives.
C4_IdempotentUpsert ==
    [][(last'.call.op = "save_favorite" /\ last'.again)
         => favorites_json' = favorites_json]_vars

C4_Witness ==
    /\ last.call.op = "save_favorite"
    /\ last.again
    /\ HasIsbn(load_user_favorites(favorites_json, last.call.user_id), last.call.book.isbn)

\* C5: Upsert on an existing ISBN is a no-op. A save_favorite(u, b) called
\* when u already has a record with b's ISBN leaves the whole file as it
\* was: that record's fields, its current_page and learning, every other
\* record and the order.
C5_UpsertExistingNoOp ==
    [][(/\ last'.call.op = "save_favorite"
        /\ HasIsbn(load_user_favorites(favorites_json, last'.call.user_id),
                   last'.call.book.isbn))
         => favorites_json' = favorites_json]_vars

C5_Witness ==
    /\ last.call.op = "save_favorite"
    /\ LET books == load_user_favorites(favorites_json, last.call.user_id)
           i == FirstIndex(books, last.call.book.isbn)
       IN /\ i # 0
          /\ books[i].title # last.call.book.title
          /\ "current_page" \in DOMAIN books[i]
          /\ "learning" \in DOMAIN books[i]

\* C10: Partial-update preservation. A call of update_favorite_page(u, i, p)
\* whose write does not fail midway changes nothing but the current_page of
\* u's record with ISBN i, and a call of save_favorite_learning(u, i, n)
\* nothing but its learning: the record's other keys, every other record and
\* every other user's collection are as before.
C10_PartialUpdate ==
    [][/\ (last'.call.op = "update_favorite_page" /\ last'.wrote # "dump_error")
            => OnlyFieldChanged(favorites_json, favorites_json', last'.call.user_id,
                                last'.call.isbn, "current_page")
       /\ (last'.call.op = "save_favorite_learning" /\ last'.wrote # "dump_error")
            => OnlyFieldChanged(favorites_json, favorites_json', last'.call.user_id,
                                last'.call.isbn, "learning")]_vars

C10_Witness ==
    /\ last.call.op = "update_favorite_page"
    /\ last.wrote = "ok"
    /\ LET books == load_user_favorites(favorites_json, last.call.user_id)
           i == FirstIndex(books, last.call.isbn)
       IN /\ i # 0
          /\ books[i].current_page = 0
          /\ "learning" \in DOMAIN books[i]

\* the two operations that set one field of a record
UpdateOps == {"update_favorite_page", "save_favorite_learning"}

\* the four operations that rewrite the file
WriteOps == UpdateOps \union {"save_favorite", "remove_favorites"}

\* C11: Not-found update leaves the store unchanged. A call of
\* update_favorite_page or save_favorite_learning with an ISBN that is not
\* in the user's collection, or for a user with no collection, whose
\* rewrite (of the unchanged document) is not cut short by an I/O error,
\* leaves the file as it was and raises nothing.
C11_NotFoundUnchanged ==
    [][(/\ last'.call.op \in UpdateOps
        /\ ~HasIsbn(load_user_favorites(favorites_json, last'.call.user_id),
                    last'.call.isbn)
        /\ last'.wrote # "dump_error")
         => /\ favorites_json' = favorites_json
            /\ last'.raised = "none"]_vars

\* the user has a collection, the ISBN is not in it, the file was rewritten
C11_Witness ==
    /\ last.call.op = "update_favorite_page"
    /\ last.wrote = "ok"
    /\ LET books == load_user_favorites(favorites_json, last.call.user_id)
       IN /\ Len(books) > 0
          /\ ~HasIsbn(books, last.call.isbn)

\* bool(value): what `if value:` tests
Truthy(value) == value \notin {PyNone, PyFalse}

\* C12 as claimed: update_favorite_page and save_favorite_learning return
\* found = true exactly when a record with the ISBN was in the user's
\* collection before the call, and found = false otherwise.
C12_FoundFlagReturned ==
    [][last'.call.op \in UpdateOps
         => Truthy(last'.returned) =
              HasIsbn(load_user_favorites(favorites_json, last'.call.user_id),
                      last'.call.isbn)]_vars

\* C12 as amended: both operations return None and raise nothing, whether
\* or not the record was there; that it was found shows only in the file,
\* where a call whose write succeeds has set the field exactly when the
\* record was in the collection before.
C12_ReturnsNone ==
    [][last'.call.op \in UpdateOps
         => LET before == load_user_favorites(favorites_json, last'.call.user_id)
                after == load_user_favorites(favorites_json', last'.call.user_id)
                i == FirstIndex(after, last'.call.isbn)
                field == IF last'.call.op = "update_favorite_page"
                         THEN "current_page" ELSE "learning"
                value == IF last'.call.op = "update_favorite_page"
                         THEN last'.call.page ELSE last'.call.learning
            IN /\ last'.returned = PyNone
               /\ last'.raised = "none"
               /\ last'.wrote = "ok" =>
                    /\ HasIsbn(before, last'.call.isbn) = (i # 0)
                    /\ i # 0 => (field \in DOMAIN after[i] /\ after[i][field] = value)]_vars

\* a note saved on a record that was found, None returned
C12_Witness ==
    /\ last.call.op = "save_favorite_learning"
    /\ last.wrote = "ok"
    /\ last.returned = PyNone
    /\ LET books == load_user_favorites(favorites_json, last.call.user_id)
           i == FirstIndex(books, last.call.isbn)
       IN /\ i # 0
          /\ "learning" \in DOMAIN books[i]
          /\ "current_page" \notin DOMAIN books[i]

\* C17: Write failure is reported. A call of one of the four write
\* operations whose rewrite of the file fails tells its caller: it raises,
\* or returns something other than what a successful call returns.
C17_WriteFailureReported ==
    (/\ last.call.op \in WriteOps
     /\ last.wrote \in {"open_error", "dump_error"})
    => (last.raised # "none" \/ last.returned # PyNone)

\* C18: Failed write loses only the attempted mutation. After a call whose
\* rewrite failed, load_all_favorites gives what it gave before the call,
\* for every user.
C18_FailedWriteKeepsDocument ==
    [][(/\ last'.call.op \in WriteOps
        /\ last'.wrote \in {"open_error", "dump_error"})
         => load_all_favorites(favorites_json') = load_all_favorites(favorites_json)]_vars

-----------------------------------------------------------------------------
(* The routes of app.py that list and remove favorites, applied to a       *)
(* collection of up to NumShelf books; one request that writes per run     *)
(* (SpecShelf)                                                             *)

ShelfIsbns == {"isbn" \o ToString(i) : i \in 1..NumShelf}

\* one search result per ISBN, the categories alternating
ShelfBooks == {BookDetails("isbn" \o ToString(i), 1 + (i % 2)) : i \in 1..NumShelf}

\* the lists of books a user can have saved, in the order saved
ShelfLists ==
    UNION {{l \in [1..n -> ShelfBooks] :
              \A i, j \in 1..n : l[i].isbn = l[j].isbn => i = j} : n \in 0..NumShelf}

RECURSIVE SaveAll(_, _, _)
SaveAll(file, user_id, books) ==
    IF books = << >> THEN file
    ELSE SaveAll(Run([op |-> "save_favorite", user_id |-> user_id, book |-> books[1]],
                     file, "ok"),
                 user_id, Tail(books))

\* favorites.json after user 1 saved `books` and then set a page and a
\* note on the first of them; `others`: user 2 saved a book before
ShelfFile(books, others) ==
    LET f0 == IF others THEN SaveAll(NoFile, 2, <<BookDetails("isbn1", 2)>>) ELSE NoFile
        f1 == SaveAll(f0, 1, books)
    IN IF books = << >> THEN f1
       ELSE Run([op |-> "save_favorite_learning", user_id |-> 1,
                 isbn |-> books[1].isbn, learning |-> "a note"],
                Run([op |-> "update_favorite_page", user_id |-> 1,
                     isbn |-> books[1].isbn, page |-> 120], f1, "ok"),
                "ok")

\* the files the routes find: written by the operations, cut short by a
\* failed write, or not readable
ShelfFiles ==
    {ShelfFile(l, o) : l \in ShelfLists, o \in BOOLEAN}
    \union {EmptyFile, CorruptFile, Unreadable(SeedFile.data)}

\* flask's session: 'user_id' is set by login and popped by logout
Sessions == {EmptyDict} \union {[user_id |-> u] : u \in UserIds}

\* 'user_id' in session
LoggedIn(session) == "user_id" \in DOMAIN session

\* str(session.get('user_id'))
SessionKey(session) == IF LoggedIn(session) THEN Str(session.user_id) ELSE PyNone

\* request.args of GET /favorites: no category, an empty one, one that
\* books have, one differing from it in case only
CategoryArgs ==
    {EmptyDict} \union {[category |-> c] : c \in {"", "category1", "category2", "Category1"}}

\* str.lower on the categories used
Lower(text) == IF text = "Category1" THEN "category1" ELSE text

\* the filter of favorites comparing categories without regard to case
favorites_filter_ignores_case(favorites, args) ==
    LET Match(book) == /\ "category" \in DOMAIN book
                       /\ Lower(book.category) = Lower(args.category)
    IN IF "category" \in DOMAIN args /\ args.category # ""
       THEN SelectSeq(favorites, Match) ELSE favorites

\* lines 151-153 of favorites: category_filter = request.args.get('category',
\* None); if category_filter: keep the books whose .get('category') equals it
favorites_filter(favorites, args) ==
    LET Match(book) == /\ "category" \in DOMAIN book
                       /\ book.category = args.category
    IN IF "category" \in DOMAIN args /\ args.category # ""
       THEN SelectSeq(favorites, Match) ELSE favorites

\* all_favorites.get(key, [])
Get(all, key) == IF key \in DOMAIN all THEN all[key] ELSE << >>

ShelfUnchanged == UNCHANGED <<favorites_json, ncalls>> /\ StoreUnchanged

\* GET /favorites
favorites ==
    \E session \in Sessions, args \in CategoryArgs :
        /\ last' = [call |-> [op |-> "favorites", session |-> session, args |-> args],
                    wrote |-> "none", again |-> FALSE,
                    result |-> favorites_filter(
                                  Get(load_all_favorites(favorites_json),
                                      SessionKey(session)), args),
                    raised |-> load_all_favorites_raises(favorites_json)]
        /\ ShelfUnchanged

\* GET /test_json_favorites
test_json_favorites ==
    /\ last' = [call |-> [op |-> "test_json_favorites"],
                wrote |-> "none", again |-> FALSE,
                result |-> load_all_favorites(favorites_json),
                raised |-> load_all_favorites_raises(favorites_json)]
    /\ ShelfUnchanged

\* what a route answers without calling json_storage
Redirect(op, session) ==
    [call |-> [op |-> op, session |-> session], wrote |-> "none", again |-> FALSE,
     result |-> "redirect", raised |-> "none"]

\* GET and POST /learnings
learnings ==
    \E session \in Sessions :
        \/ /\ ~LoggedIn(session)
           /\ last' = Redirect("learnings", session)
           /\ ShelfUnchanged
        \/ /\ LoggedIn(session)
           /\ last' = [call |-> [op |-> "learnings", session |-> session],
                       wrote |-> "none", again |-> FALSE,
                       result |-> load_user_favorites(favorites_json, session.user_id),
                       raised |-> load_all_favorites_raises(favorites_json)]
           /\ ShelfUnchanged
        \/ /\ LoggedIn(session)
           /\ ncalls = 0
           /\ \E c \in LearningCalls : c.user_id = session.user_id /\ Handler(c)

\* the selected_books lists of POST /remove_favorites
ShelfSelected == {ListOf(S) : S \in SUBSET ShelfIsbns}

\* POST /remove_favorites
remove_favorites_view ==
    \E session \in Sessions, selected_isbns \in ShelfSelected :
        IF LoggedIn(session) /\ selected_isbns # << >>
        THEN /\ ncalls = 0
             /\ Handler([op |-> "remove_favorites", user_id |-> session.user_id,
                         selected |-> selected_isbns])
        ELSE /\ last' = Redirect("remove_favorites_view", session)
             /\ ShelfUnchanged

InitShelf ==
    /\ favorites_json \in ShelfFiles
    /\ ncalls = 0
    /\ last = NoCall
    /\ NoThreads
    /\ NoUsers
    /\ NoRequest

NextShelf ==
    \/ favorites
    \/ test_json_favorites
    \/ learnings
    \/ remove_favorites_view

SpecShelf == InitShelf /\ [][NextShelf]_vars

-----------------------------------------------------------------------------
(* Properties of the listing and removing routes (SpecShelf) *)

\* the elements of a list
Range(list) == {list[i] : i \in 1..Len(list)}

\* `part` holds books of `books` only, each once, in the order of `books`
InOrderOf(part, books) ==
    /\ Range(part) \subseteq Range(books)
    /\ \A i, j \in 1..Len(part) :
         i < j => FirstIndex(books, part[i].isbn) < FirstIndex(books, part[j].isbn)

\* C13: Removal completeness. After a remove_favorites(u, S) that wrote the
\* file (or had no collection to write), u's collection holds no record
\* with an ISBN of S; every record with an ISBN outside S is still there
\* with all its fields, in the original relative order; ISBNs of S that
\* were not present are ignored, and when no ISBN matches the collection is
\* as before.
C13_RemovalComplete ==
    [][(last'.call.op = "remove_favorites" /\ last'.wrote \in {"ok", "none"})
         => LET S == Range(last'.call.selected)
                before == load_user_favorites(favorites_json, last'.call.user_id)
                after == load_user_favorites(favorites_json', last'.call.user_id)
            IN /\ \A i \in 1..Len(after) : after[i].isbn \notin S
               /\ \A j \in 1..Len(before) :
                    before[j].isbn \notin S => before[j] \in Range(after)
               /\ InOrderOf(after, before)
               /\ (\A j \in 1..Len(before) : before[j].isbn \notin S)
                    => after = before]_vars

\* the second of three records removed; the two that stay are the one
\* saved first, with its page and note, and the one saved last
C13_Witness ==
    /\ last.call.op = "remove_favorites"
    /\ last.wrote = "ok"
    /\ last.call.selected = <<"isbn2">>
    /\ LET after == load_user_favorites(favorites_json, last.call.user_id)
       IN /\ Len(after) = 2
          /\ "learning" \in DOMAIN after[1]
          /\ after[1].isbn = "isbn3"
          /\ after[2].isbn = "isbn1"

\* C19: Read paths are total. load_all_favorites returns an empty mapping
\* when the file is missing, unreadable or corrupt, load_user_favorites an
\* empty sequence for a user with no entry, and neither raises.
C19_ReadsTotal ==
    /\ last.call.op = "test_json_favorites"
         => /\ last.raised = "none"
            /\ favorites_json.status # "ok" => last.result = EmptyDict
            /\ favorites_json.status = "ok" => last.result = favorites_json.data
    /\ (last.call.op = "learnings" /\ LoggedIn(last.call.session))
         => /\ last.raised = "none"
            /\ (\/ favorites_json.status # "ok"
                \/ Str(last.call.session.user_id) \notin DOMAIN favorites_json.data)
                 => last.result = << >>

\* the listing read a file that is there and cannot be read
C19_Witness ==
    /\ last.call.op = "test_json_favorites"
    /\ favorites_json.status = "unreadable"
    /\ favorites_json.data # EmptyDict
    /\ last.result = EmptyDict

\* C20: Category filter correctness. GET /favorites with a category c gives
\* exactly the records of the user's collection whose category equals c,
\* case-sensitively, in their insertion order; with no category (or an
\* empty one, which the route takes for none) it gives the whole collection.
C20_CategoryFilter ==
    last.call.op = "favorites"
    => LET books == Get(load_all_favorites(favorites_json), SessionKey(last.call.session))
           args == last.call.args
       IN IF "category" \in DOMAIN args /\ args.category # ""
          THEN /\ \A i \in 1..Len(last.result) : last.result[i].category = args.category
               /\ \A j \in 1..Len(books) :
                    books[j].category = args.category => books[j] \in Range(last.result)
               /\ InOrderOf(last.result, books)
          ELSE last.result = books

\* two of three records listed, the one between them left out
C20_Witness ==
    /\ last.call.op = "favorites"
    /\ "category" \in DOMAIN last.call.args
    /\ Len(last.result) = 2
    /\ LET books == Get(load_all_favorites(favorites_json), SessionKey(last.call.session))
       IN /\ Len(books) = 3
          /\ last.result = <<books[1], books[3]>>

-----------------------------------------------------------------------------
(* The reading streak: the users table and update_reading_streak *)

\* Calendar dates are day numbers (date.toordinal()); the text
\* 'YYYY-MM-DD' of a date is the tuple <<year, month, day>>.

IsLeap(y) == y % 4 = 0 /\ (y % 100 # 0 \/ y % 400 = 0)

DaysInMonth(y, m) ==
    IF m = 2 THEN (IF IsLeap(y) THEN 29 ELSE 28)
    ELSE IF m \in {4, 6, 9, 11} THEN 30 ELSE 31

DaysBeforeYear(y) ==
    (y - 1) * 365 + (y - 1) \div 4 - (y - 1) \div 100 + (y - 1) \div 400

RECURSIVE DaysBeforeMonth(_, _)
DaysBeforeMonth(y, m) ==
    IF m = 1 THEN 0 ELSE DaysBeforeMonth(y, m - 1) + DaysInMonth(y, m - 1)

\* date.strftime('%Y-%m-%d')
Strftime(n) ==
    LET y == CHOOSE yy \in 2023..2025 :
                 DaysBeforeYear(yy) < n /\ n <= DaysBeforeYear(yy + 1)
        k == n - DaysBeforeYear(y)
        m == CHOOSE mm \in 1..12 :
                 /\ DaysBeforeMonth(y, mm) < k
                 /\ k <= DaysBeforeMonth(y, mm) + DaysInMonth(y, mm)
    IN <<y, m, k - DaysBeforeMonth(y, m)>>

\* datetime.strptime(text, '%Y-%m-%d').date()
Strptime(text) ==
    DaysBeforeYear(text[1]) + DaysBeforeMonth(text[1], text[2]) + text[3]

\* the dates datetime.now().date() takes
Days == FirstDay..(FirstDay + NumDays - 1)

AccountIds == 1..NumAccounts

\* a NULL last_read_date
Null == << >>

\* the row INSERT INTO users (username, password) creates
NewRow == [last_read_date |-> Null, current_streak |-> 0, longest_streak |-> 0]

\* the same-day check dropped: a second call on one day counts again
streak_counts_same_day(row, today) ==
    LET last_read_date == IF row.last_read_date # Null
                          THEN Strptime(row.last_read_date) ELSE None
        current_streak == IF last_read_date \in {today, today - 1}
                          THEN row.current_streak + 1 ELSE 1
    IN [current_streak |-> current_streak,
        longest_streak |-> IF current_streak > row.longest_streak
                           THEN current_streak ELSE row.longest_streak,
        streak_status |-> IF last_read_date \in {today, today - 1}
                          THEN "continued" ELSE "reset"]

\* >= for ==: a last_read_date after today continues the streak
streak_continues_from_future(row, today) ==
    LET last_read_date == IF row.last_read_date # Null
                          THEN Strptime(row.last_read_date) ELSE None
        status == IF last_read_date = today THEN "unchanged"
                  ELSE IF last_read_date >= today - 1 THEN "continued"
                  ELSE "reset"
        current_streak == IF status = "unchanged" THEN row.current_streak
                          ELSE IF status = "continued" THEN row.current_streak + 1
                          ELSE 1
    IN [current_streak |-> current_streak,
        longest_streak |-> IF current_streak > row.longest_streak
                           THEN current_streak ELSE row.longest_streak,
        streak_status |-> status]

\* the longest streak never raised
streak_keeps_longest(row, today) ==
    LET last_read_date == IF row.last_read_date # Null
                          THEN Strptime(row.last_read_date) ELSE None
        status == IF last_read_date = today THEN "unchanged"
                  ELSE IF last_read_date = today - 1 THEN "continued"
                  ELSE "reset"
    IN [current_streak |-> IF status = "unchanged" THEN row.current_streak
                           ELSE IF status = "continued" THEN row.current_streak + 1
                           ELSE 1,
        longest_streak |-> row.longest_streak,
        streak_status |-> status]

\* the longest streak set to the current one
streak_longest_follows(row, today) ==
    LET last_read_date == IF row.last_read_date # Null
                          THEN Strptime(row.last_read_date) ELSE None
        status == IF last_read_date = today THEN "unchanged"
                  ELSE IF last_read_date = today - 1 THEN "continued"
                  ELSE "reset"
        current_streak == IF status = "unchanged" THEN row.current_streak
                          ELSE IF status = "continued" THEN row.current_streak + 1
                          ELSE 1
    IN [current_streak |-> current_streak,
        longest_streak |-> current_streak,
        streak_status |-> status]

\* a reset that starts the streak at 0 instead of 1
streak_resets_to_zero(row, today) ==
    LET last_read_date == IF row.last_read_date # Null
                          THEN Strptime(row.last_read_date) ELSE None
        status == IF last_read_date = today THEN "unchanged"
                  ELSE IF last_read_date = today - 1 THEN "continued"
                  ELSE "reset"
        current_streak == IF status = "unchanged" THEN row.current_streak
                          ELSE IF status = "continued" THEN row.current_streak + 1
                          ELSE 0
    IN [current_streak |-> current_streak,
        longest_streak |-> IF current_streak > row.longest_streak
                           THEN current_streak ELSE row.longest_streak,
        streak_status |-> status]

\* lines 232-247: the new streak from the row read and today's date
streak_transition(row, today) ==
    LET last_read_date == IF row.last_read_date # Null
                          THEN Strptime(row.last_read_date) ELSE None
        status == IF last_read_date = today THEN "unchanged"
                  ELSE IF last_read_date = today - 1 THEN "continued"
                  ELSE "reset"
        current_streak == IF status = "unchanged" THEN row.current_streak
                          ELSE IF status = "continued" THEN row.current_streak + 1
                          ELSE 1
    IN [current_streak |-> current_streak,
        longest_streak |-> IF current_streak > row.longest_streak
                           THEN current_streak ELSE row.longest_streak,
        streak_status |-> status]

\* SELECT ... WHERE id = ?, and (None, 0, 0) when there is no such row
select_user(table, user_id) ==
    IF user_id \in DOMAIN table THEN table[user_id] ELSE NewRow

\* UPDATE users SET ... WHERE id = ?: changes the row if there is one
update_user(table, user_id, today, r) ==
    IF user_id \in DOMAIN table
    THEN [table EXCEPT ![user_id] =
            [last_read_date |-> Strftime(today),
             current_streak |-> r.current_streak,
             longest_streak |-> r.longest_streak]]
    ELSE table

\* the caught error hidden: the result of a first call returned instead
error_reported_as_reset ==
    [current_streak |-> 1, longest_streak |-> 1, last_read_date |-> None,
     streak_status |-> "reset"]

\* the dict returned when sqlite3.Error is caught
ErrorResult ==
    [current_streak |-> 0, longest_streak |-> 0, last_read_date |-> None,
     streak_status |-> "error"]

StreakUnchanged ==
    UNCHANGED <<favorites_json, ncalls, pc, call, all_favorites, overlapped,
                route, crash_free>>

StreakCall(user_id) == [op |-> "update_reading_streak", user_id |-> user_id]

update_reading_streak ==
    \E user_id \in AccountIds :
        LET today == clock
            r == streak_transition(select_user(users, user_id), today)
            c == StreakCall(user_id)
        IN /\ \/ /\ users' = update_user(users, user_id, today, r)
                 /\ last' = [call |-> c, wrote |-> "-", db |-> "ok",
                             again |-> (last.call = c /\ last.result.streak_status # "error"
                                        /\ last.result.last_read_date = today),
                             result |-> [current_streak |-> r.current_streak,
                                         longest_streak |-> r.longest_streak,
                                         last_read_date |-> today,
                                         streak_status |-> r.streak_status]]
              \* a statement or the commit raises sqlite3.Error: nothing is
              \* committed before the connection is closed
              \/ /\ users' = users
                 /\ last' = [call |-> c, wrote |-> "-", db |-> "sqlite3.Error",
                             again |-> FALSE, result |-> ErrorResult]
           /\ UNCHANGED clock
           /\ StreakUnchanged

\* the dict returned for a user without a row, and when sqlite3.Error is
\* caught
NoStreakData ==
    [current_streak |-> 0, longest_streak |-> 0, last_read_date |-> Null]

\* lines 284-311: the three columns of the user's row, last_read_date as
\* the text stored
get_user_streak_data ==
    \E user_id \in AccountIds :
        LET c == [op |-> "get_user_streak_data", user_id |-> user_id]
        IN /\ \/ last' = [call |-> c, wrote |-> "-", again |-> FALSE, db |-> "ok",
                           result |-> IF user_id \in DOMAIN users
                                      THEN [current_streak |-> users[user_id].current_streak,
                                            longest_streak |-> users[user_id].longest_streak,
                                            last_read_date |-> users[user_id].last_read_date]
                                      ELSE NoStreakData]
              \/ last' = [call |-> c, wrote |-> "-", again |-> FALSE,
                          db |-> "sqlite3.Error", result |-> NoStreakData]
           /\ UNCHANGED <<users, clock>>
           /\ StreakUnchanged

\* INSERT INTO users (username, password): the id is the next integer, the
\* streak columns take their defaults
register_user ==
    /\ Len(users) < NumAccounts
    /\ users' = Append(users, NewRow)
    /\ last' = [call |-> [op |-> "register_user", user_id |-> Len(users) + 1],
                wrote |-> "-", again |-> FALSE]
    /\ UNCHANGED clock
    /\ StreakUnchanged

\* the system date changes: midnight passes, or the clock is set
set_clock ==
    /\ \E d \in Days : clock' = d
    /\ UNCHANGED <<users, last>>
    /\ StreakUnchanged

InitStreak ==
    /\ favorites_json = NoFile
    /\ last = NoCall
    /\ ncalls = 0
    /\ NoThreads
    /\ users = << >>
    /\ clock = FirstDay
    /\ NoRequest

NextStreak ==
    \/ register_user
    \/ update_reading_streak
    \/ get_user_streak_data
    \/ set_clock

SpecStreak == InitStreak /\ [][NextStreak]_vars

-----------------------------------------------------------------------------
(* Properties of the reading streak (SpecStreak) *)

\* the step is a call of update_reading_streak for a user with a row, and
\* the database raised no error
StreakStep(u) ==
    /\ last'.call = StreakCall(u)
    /\ last'.result.streak_status # "error"
    /\ u \in DOMAIN users
    /\ clock' = clock

\* C6: Streak transition function. For every prior row and every date
\* today, a call that reads the row and meets no database error gives:
\* last date = today: the streak unchanged, status 'unchanged'; last date =
\* today - 1: the streak + 1, 'continued'; anything else (no date, a gap, a
\* date after today): 1, 'reset'. The longest streak is the larger of the
\* old one and the new streak, and the row's date becomes today in all three.
C6_StreakTransition ==
    [][\A u \in AccountIds :
         StreakStep(u) =>
           LET prior == users[u]
               today == clock
               has == prior.last_read_date # Null
               same == has /\ prior.last_read_date = Strftime(today)
               next == has /\ prior.last_read_date = Strftime(today - 1)
               res == last'.result
           IN /\ same => /\ res.current_streak = prior.current_streak
                         /\ res.streak_status = "unchanged"
              /\ next => /\ res.current_streak = prior.current_streak + 1
                         /\ res.streak_status = "continued"
              /\ (~same /\ ~next) => /\ res.current_streak = 1
                                     /\ res.streak_status = "reset"
              /\ res.longest_streak =
                    (IF res.current_streak > prior.longest_streak
                     THEN res.current_streak ELSE prior.longest_streak)
              /\ users'[u].current_streak = res.current_streak
              /\ users'[u].longest_streak = res.longest_streak
              /\ users'[u].last_read_date = Strftime(today)
              /\ Strptime(users'[u].last_read_date) = today]_vars

\* a reset from a last date after today
C6_Witness ==
    /\ last.call.op = "update_reading_streak"
    /\ last.result.streak_status = "reset"
    /\ last.call.user_id \in DOMAIN users
    /\ users[last.call.user_id].longest_streak >= 3
    /\ users[last.call.user_id].last_read_date = <<2024, 2, 28>>

\* C7: In every state reached from the initial (none, 0, 0) by calls on any
\* dates, each user's longest_streak >= current_streak >= 0.
C7_LongestAtLeastCurrent ==
    \A u \in DOMAIN users :
        /\ users[u].longest_streak >= users[u].current_streak
        /\ users[u].current_streak >= 0

C7_Witness ==
    \E u \in DOMAIN users :
        /\ last.call = StreakCall(u)
        /\ last.result.streak_status = "continued"
        /\ users[u].current_streak = 2
        /\ users[u].longest_streak = 3

\* C8: Longest-streak monotonicity. No step lowers a user's
\* longest_streak, whatever the dates and their order.
C8_LongestMonotone ==
    [][\A u \in DOMAIN users :
         /\ u \in DOMAIN users'
         /\ users'[u].longest_streak >= users[u].longest_streak]_vars

C8_Witness ==
    \E u \in DOMAIN users :
        /\ last.call = StreakCall(u)
        /\ last.result.streak_status = "reset"
        /\ users[u].current_streak = 1
        /\ users[u].longest_streak >= 2

\* C9: Same-day idempotence. A call for the same user on the same date
\* directly after a call that met no database error leaves the row as the
\* first call left it, and reports 'unchanged' with the same streak.
C9_SameDayIdempotent ==
    [][\A u \in AccountIds :
         (StreakStep(u) /\ last'.again) =>
            /\ users' = users
            /\ last'.result.streak_status = "unchanged"
            /\ last'.result.current_streak = last.result.current_streak
            /\ last'.result.longest_streak = last.result.longest_streak]_vars

C9_Witness ==
    /\ last.call.op = "update_reading_streak"
    /\ last.again
    /\ last.result.streak_status = "unchanged"
    /\ last.result.current_streak >= 2

\* the step is a call of update_reading_streak for user u, with a row or not,
\* with a database error or not
StreakCallStep(u) ==
    /\ last'.call = StreakCall(u)
    /\ clock' = clock

\* C21: Unreadable prior streak state is treated as initial. A call for a
\* user with no row, or a call whose read meets a database error, returns
\* current_streak 1, longest_streak 1 and status 'reset', and never an error
\* outcome.
C21_UnreadablePriorIsInitial ==
    [][\A u \in AccountIds :
         (StreakCallStep(u) /\ (u \notin DOMAIN users \/ last'.db # "ok")) =>
            /\ last'.result.current_streak = 1
            /\ last'.result.longest_streak = 1
            /\ last'.result.streak_status = "reset"]_vars

\* C21 as the code has it: a call for a user with no row returns 1, 1,
\* 'reset' and today's date, and writes no row; a call that meets a database
\* error returns 0, 0, no date and status 'error', and leaves the table as it
\* was, whatever the prior row.
C21_NoRowIsInitialErrorIsReported ==
    [][\A u \in AccountIds :
         StreakCallStep(u) =>
            /\ (last'.db = "ok" /\ u \notin DOMAIN users) =>
                  /\ last'.result.current_streak = 1
                  /\ last'.result.longest_streak = 1
                  /\ last'.result.streak_status = "reset"
                  /\ last'.result.last_read_date = clock
                  /\ users' = users
            /\ last'.db # "ok" =>
                  /\ last'.result.current_streak = 0
                  /\ last'.result.longest_streak = 0
                  /\ last'.result.last_read_date = None
                  /\ last'.result.streak_status = "error"
                  /\ users' = users]_vars

\* a database error met by the call of a user whose streak is 2
C21_Witness ==
    \E u \in DOMAIN users :
        /\ last.call = StreakCall(u)
        /\ last.db # "ok"
        /\ last.result.streak_status = "error"
        /\ users[u].current_streak = 2

\* C26: Returned result equals persisted state. When update_reading_streak
\* returned a status other than 'error', a get_user_streak_data for the same
\* user directly after it, meeting no database error, returns the same
\* current_streak and longest_streak and a last_read_date equal to the date
\* of the call; also for a user id that has no row.
C26_ReturnedIsPersisted ==
    [][\A u \in AccountIds :
         (/\ last.call = StreakCall(u)
          /\ last.result.streak_status # "error"
          /\ last'.call = [op |-> "get_user_streak_data", user_id |-> u]
          /\ last'.db = "ok")
           => /\ last'.result.current_streak = last.result.current_streak
              /\ last'.result.longest_streak = last.result.longest_streak
              /\ last'.result.last_read_date # Null
              /\ Strptime(last'.result.last_read_date) = last.result.last_read_date]_vars

\* C27: Streak and last-active-date agree. In every reachable state a
\* row's last_read_date is set exactly when its current_streak >= 1;
\* current_streak = 0 only in the row of a user for whom no call has been
\* made, which is the row as created; and a call that does not end in
\* 'error' returns, and leaves in the row, a current_streak >= 1.
C27_StreakAndDateAgree ==
    /\ \A u \in DOMAIN users :
         /\ users[u].last_read_date # Null <=> users[u].current_streak >= 1
         /\ users[u].current_streak = 0 => users[u] = NewRow
    /\ (last.call.op = "update_reading_streak" /\ last.result.streak_status # "error")
         => /\ last.result.current_streak >= 1
            /\ last.call.user_id \in DOMAIN users
                 => users[last.call.user_id].current_streak >= 1

\* the first call for a registered user: the row goes from (NULL, 0, 0) to
\* today's date and a streak of 1
C27_Witness ==
    \E u \in DOMAIN users :
        /\ last.call = StreakCall(u)
        /\ last.result.streak_status = "reset"
        /\ users[u] = [last_read_date |-> Strftime(clock), current_streak |-> 1,
                       longest_streak |-> 1]

-----------------------------------------------------------------------------
(* The two stores side by side (SpecStores): favorites.json of             *)
(* json_storage.py and the users table of database.py, each written by its *)
(* own functions. One call of json_storage and any calls of                *)
(* update_reading_streak, on one day, in any order.                        *)

InitStores ==
    /\ favorites_json \in {NoFile, SeedFile}
    /\ ncalls = MaxCalls - 1
    /\ last = NoCall
    /\ NoThreads
    /\ users = << >>
    /\ clock = FirstDay
    /\ NoRequest

NextStores ==
    \/ save_favorite
    \/ save_favorite_learning
    \/ remove_favorites
    \/ update_favorite_page
    \/ register_user
    \/ update_reading_streak

SpecStores == InitStores /\ [][NextStores]_vars

\* C22: Favorites operations do not touch streak state, and vice versa. A
\* call of save_favorite, update_favorite_page, save_favorite_learning or
\* remove_favorites leaves every row of the users table as it was; a call
\* of update_reading_streak leaves favorites.json as it was; and a user's
\* streak columns change only in a call of update_reading_streak for that
\* user.
C22_StoresAreSeparate ==
    [][/\ last'.call.op \in WriteOps => users' = users
       /\ last'.call.op = "update_reading_streak" => favorites_json' = favorites_json
       /\ \A u \in DOMAIN users :
             /\ u \in DOMAIN users'
             /\ users'[u] # users[u] =>
                   (last'.call = StreakCall(u) /\ last'.db = "ok")]_vars

\* a favorite saved, and written, for a user whose streak is 1
C22_Witness ==
    /\ last.call.op = "save_favorite"
    /\ last.wrote = "ok"
    /\ last.call.user_id \in DOMAIN users
    /\ users[last.call.user_id].current_streak = 1
    /\ HasKey(favorites_json.data, Str(last.call.user_id))

-----------------------------------------------------------------------------
(* The same operations called from concurrent request threads. No lock is  *)
(* taken anywhere in json_storage.py, so the threads interleave at every   *)
(* access to the file: the load, the open(.., 'w') and the dump.           *)

\* The calls thread t makes: on any user and ISBN; the fields that no
\* operation reads are fixed, a thread's book_details telling whose record
\* it is.
ThreadCalls(t) ==
    {c \in SaveCalls : c.book = BookDetails(c.book.isbn, t)}
    \union {c \in LearningCalls : c.learning = "a note"}
    \union {c \in RemoveCalls : Len(c.selected) = 1}
    \union {c \in PageCalls : c.page = 120}

ConcUnchanged == UNCHANGED <<last, users, clock, route, crash_free>>

\* all_favorites = load_all_favorites(), then the changes made in memory
thread_load(t) ==
    /\ pc[t] = "idle"
    /\ ncalls < MaxConcCalls
    /\ \E c \in ThreadCalls(t) :
         LET r == Mem(c, load_all_favorites(favorites_json))
         IN /\ call' = [call EXCEPT ![t] =
                          [call |-> c, wrote |-> IF r.writes THEN "-" ELSE "none",
                           again |-> FALSE, read |-> favorites_json.status]]
            /\ all_favorites' = [all_favorites EXCEPT ![t] = r.all]
            /\ pc' = [pc EXCEPT ![t] = IF r.writes THEN "loaded" ELSE "done"]
    /\ overlapped' = [overlapped EXCEPT ![t] = FALSE]
    /\ ncalls' = ncalls + 1
    /\ UNCHANGED favorites_json
    /\ ConcUnchanged

\* open(FAVORITES_JSON_PATH, 'w'): truncates the file, or raises IOError
thread_open(t) ==
    /\ pc[t] = "loaded"
    /\ \/ /\ favorites_json' = EmptyFile
          /\ pc' = [pc EXCEPT ![t] = "opened"]
          /\ UNCHANGED call
       \/ /\ UNCHANGED favorites_json
          /\ pc' = [pc EXCEPT ![t] = "done"]
          /\ call' = [call EXCEPT ![t].wrote = "open_error"]
    /\ UNCHANGED <<all_favorites, overlapped, ncalls>>
    /\ ConcUnchanged

\* json.dump(all_favorites, file) and the close. The thread writes from
\* offset 0 of the file it truncated: onto a file still empty this leaves
\* its document; onto what another thread wrote meanwhile it leaves its
\* document or, when that is the shorter one, a text with the other's tail.
thread_dump(t) ==
    /\ pc[t] = "opened"
    /\ \/ /\ favorites_json' = [status |-> "ok", data |-> all_favorites[t]]
          /\ call' = [call EXCEPT ![t].wrote = "ok"]
       \/ /\ favorites_json.status # "empty"
          /\ favorites_json' = CorruptFile
          /\ call' = [call EXCEPT ![t].wrote = "ok"]
       \/ /\ favorites_json' = CorruptFile
          /\ call' = [call EXCEPT ![t].wrote = "dump_error"]
    /\ pc' = [pc EXCEPT ![t] = "done"]
    /\ UNCHANGED <<all_favorites, overlapped, ncalls>>
    /\ ConcUnchanged

\* the call returns to the route
thread_return(t) ==
    /\ pc[t] = "done"
    /\ pc' = [pc EXCEPT ![t] = "idle"]
    /\ call' = [call EXCEPT ![t] = NoCall]
    /\ all_favorites' = [all_favorites EXCEPT ![t] = EmptyDict]
    /\ overlapped' = [u \in Threads |->
                        IF u # t /\ pc[u] # "idle" THEN TRUE
                        ELSE IF u = t THEN FALSE ELSE overlapped[u]]
    /\ UNCHANGED <<favorites_json, ncalls>>
    /\ ConcUnchanged

InitConc ==
    /\ favorites_json \in {NoFile, SeedFile}
    /\ last = NoCall
    /\ ncalls = 0
    /\ NoThreads
    /\ NoUsers
    /\ NoRequest

NextConc ==
    \/ \E t \in Threads : thread_load(t)
    \/ \E t \in Threads : thread_open(t)
    \/ \E t \in Threads : thread_dump(t)
    \/ \E t \in Threads : thread_return(t)

SpecConc == InitConc /\ [][NextConc]_vars

-----------------------------------------------------------------------------
(* Properties of the concurrent calls (SpecConc) *)

\* thread t is between its load of the file and the end of its rewrite
InSection(t) == pc[t] \in {"loaded", "opened"}

\* t finished a save_favorite that read the document, found its ISBN new,
\* appended its book and wrote the file, and no third call ran meanwhile
SavedNew(t) ==
    /\ pc[t] = "done"
    /\ call[t].call.op = "save_favorite"
    /\ call[t].wrote = "ok"
    /\ call[t].read \in {"ok", "missing"}
    /\ ~overlapped[t]

\* C1: Concurrent-write safety. When two save_favorite calls for one user
\* and two different ISBNs, neither in the collection before, have both
\* finished, and no other call ran meanwhile, the file holds both records.
C1_BothSavesSurvive ==
    \A t1, t2 \in Threads :
        (/\ t1 # t2
         /\ SavedNew(t1) /\ SavedNew(t2)
         /\ call[t1].call.user_id = call[t2].call.user_id
         /\ call[t1].call.book.isbn # call[t2].call.book.isbn)
        => LET books == load_user_favorites(favorites_json, call[t1].call.user_id)
           IN /\ HasIsbn(books, call[t1].call.book.isbn)
              /\ HasIsbn(books, call[t2].call.book.isbn)

\* C2: One critical section per write operation. No thread loads or
\* rewrites the file while another is between its own load and rewrite.
C2_CriticalSection ==
    \A t1, t2 \in Threads : (t1 # t2 /\ InSection(t1)) => ~InSection(t2)

\* no collection of the document holds an ISBN twice
UniqueIsbns(all) ==
    \A k \in DOMAIN all :
        \A i, j \in 1..Len(all[k]) : all[k][i].isbn = all[k][j].isbn => i = j

\* C3: ISBN uniqueness. In every state reached by any interleaving of the
\* four write operations, no user's persisted collection holds two records
\* with one ISBN.
C3_IsbnUnique == UniqueIsbns(load_all_favorites(favorites_json))

\* both threads appended a record with one ISBN for one user and wrote
C3_Witness ==
    /\ SavedNew(1) /\ SavedNew(2)
    /\ call[1].call.user_id = call[2].call.user_id
    /\ call[1].call.book.isbn = call[2].call.book.isbn
    /\ HasIsbn(load_user_favorites(favorites_json, call[1].call.user_id),
               call[1].call.book.isbn)

-----------------------------------------------------------------------------
(* POST /update_favorite_page: the route of app.py that stores the page    *)
(* and then updates the reading streak (SpecProgress)                      *)

\* request.form['current_page'] as a list of characters: " 17", "-5",
\* "abc" and ""
PageTexts == {<<" ", "1", "7">>, <<"-", "5">>, <<"a", "b", "c">>, << >>}

Digits == {ToString(d) : d \in 0..9}

DigitValue(ch) == CHOOSE d \in 0..9 : ToString(d) = ch

\* str.strip(): the text without its leading and trailing blanks
RECURSIVE Strip(_)
Strip(text) ==
    IF text = << >> THEN text
    ELSE IF Head(text) = " " THEN Strip(Tail(text))
    ELSE IF text[Len(text)] = " " THEN Strip(SubSeq(text, 1, Len(text) - 1))
    ELSE text

\* the number a list of digits writes
RECURSIVE Decimal(_)
Decimal(digits) ==
    IF digits = << >> THEN 0
    ELSE 10 * Decimal(SubSeq(digits, 1, Len(digits) - 1)) + DigitValue(digits[Len(digits)])

\* int(text): blanks stripped, an optional sign, then digits; anything else
\* raises ValueError
int(text) ==
    LET t == Strip(text)
        signed == t # << >> /\ Head(t) \in {"+", "-"}
        digits == IF signed THEN Tail(t) ELSE t
    IN IF digits # << >> /\ \A i \in 1..Len(digits) : digits[i] \in Digits
       THEN [raised |-> "none",
             value |-> IF signed /\ Head(t) = "-" THEN 0 - Decimal(digits)
                       ELSE Decimal(digits)]
       ELSE [raised |-> "ValueError", value |-> 0]

\* the route going on to the streak only when the book was found
route_streak_only_if_found(found) == IF found THEN "update_streak" ELSE "render"

\* line 286 follows line 282 whatever update_favorite_page did
route_after_page(found) == "update_streak"

\* the session of the browser the requests come from: of the first
\* account once logged in, empty before
ProgressSessions == {EmptyDict, [user_id |-> 1]}

ProgressOp == "POST /update_favorite_page"

\* the streak table after update_reading_streak(user_id) today
streak_update(table, user_id, today) ==
    update_user(table, user_id, today,
                streak_transition(select_user(table, user_id), today))

\* the run without the crash makes the same update, and what it is
\* compared on afterwards
crash_free_update(cf, user_id, today) ==
    [cf EXCEPT !.users = streak_update(cf.users, user_id, today),
               !.later = IF cf.crashed = user_id /\ cf.later = "none"
                         THEN (IF today = cf.day THEN "same_day" ELSE "other_day")
                         ELSE cf.later]

\* lines 266-283: the login check, int(current_page) and the call of
\* json_storage.update_favorite_page
update_favorite_page_route ==
    /\ route.pc = "idle"
    /\ \E session \in ProgressSessions, book_isbn \in Isbns, current_page \in PageTexts :
         LET form == [op |-> ProgressOp, session |-> session,
                      book_isbn |-> book_isbn, current_page |-> current_page]
             page == int(current_page)
         IN IF ~LoggedIn(session)
            THEN /\ last' = [call |-> form, wrote |-> "none", again |-> FALSE,
                             result |-> "redirect", raised |-> "none"]
                 /\ UNCHANGED <<favorites_json, route>>
            ELSE IF page.raised = "ValueError"
            THEN /\ last' = [call |-> form, wrote |-> "none", again |-> FALSE,
                             result |-> "400", raised |-> "none"]
                 /\ UNCHANGED <<favorites_json, route>>
            ELSE \E outcome \in WriteOutcomes :
                   LET c == [op |-> "update_favorite_page", user_id |-> session.user_id,
                             isbn |-> book_isbn, page |-> page.value]
                       found == HasIsbn(load_user_favorites(favorites_json, session.user_id),
                                        book_isbn)
                   IN /\ favorites_json' = Run(c, favorites_json, outcome)
                      /\ last' = [call |-> form,
                                  wrote |-> Done(c, favorites_json, outcome).wrote,
                                  again |-> FALSE, result |-> "page", raised |-> "none"]
                      /\ route' = [pc |-> route_after_page(found),
                                   user_id |-> session.user_id,
                                   found |-> found,
                                   calls |-> <<"update_favorite_page">>]
    /\ UNCHANGED <<users, clock, crash_free, ncalls, pc, call, all_favorites, overlapped>>

\* line 286: database.update_reading_streak(user_id), its result dropped
update_reading_streak_route ==
    /\ route.pc = "update_streak"
    /\ \/ /\ users' = streak_update(users, route.user_id, clock)
          /\ crash_free' = crash_free_update(crash_free, route.user_id, clock)
          /\ last' = [call |-> StreakCall(route.user_id), wrote |-> "-", again |-> FALSE,
                      result |-> streak_transition(select_user(users, route.user_id), clock)]
       \/ /\ UNCHANGED <<users, crash_free>>
          /\ last' = [call |-> StreakCall(route.user_id), wrote |-> "-", again |-> FALSE,
                      result |-> ErrorResult]
    /\ route' = [route EXCEPT !.pc = "render",
                              !.calls = Append(@, "update_reading_streak")]
    /\ UNCHANGED <<favorites_json, clock, ncalls, pc, call, all_favorites, overlapped>>

\* lines 289-290: the favorites are loaded again and the page is rendered
render_bookmarks ==
    /\ route.pc = "render"
    /\ last' = [call |-> [op |-> "render", user_id |-> route.user_id,
                          found |-> route.found, calls |-> route.calls],
                wrote |-> "none", again |-> FALSE,
                result |-> load_user_favorites(favorites_json, route.user_id),
                raised |-> load_all_favorites_raises(favorites_json)]
    /\ route' = Idle
    /\ UNCHANGED <<favorites_json, users, clock, crash_free, ncalls, pc, call,
                   all_favorites, overlapped>>

\* The process dies between line 282 and line 286, once: the request is
\* gone, both stores are as they are on disk. The run without the crash
\* goes on to update the streak.
crash ==
    /\ route.pc = "update_streak"
    /\ crash_free.crashed = 0
    /\ route' = Idle
    /\ crash_free' = [users |-> streak_update(crash_free.users, route.user_id, clock),
                      crashed |-> route.user_id, day |-> clock, later |-> "none"]
    /\ last' = [call |-> [op |-> "crash", user_id |-> route.user_id],
                wrote |-> "-", again |-> FALSE]
    /\ UNCHANGED <<favorites_json, users, clock, ncalls, pc, call, all_favorites,
                   overlapped>>

\* midnight passes
midnight ==
    /\ clock < FirstDay + NumDays - 1
    /\ clock' = clock + 1
    /\ UNCHANGED <<favorites_json, last, users, route, crash_free, ncalls, pc, call,
                   all_favorites, overlapped>>

\* every account is registered; the run without the crash has the same table
InitProgress ==
    /\ favorites_json \in {NoFile, SeedFile}
    /\ last = NoCall
    /\ ncalls = 0
    /\ NoThreads
    /\ users = [u \in AccountIds |-> NewRow]
    /\ clock = FirstDay
    /\ route = Idle
    /\ crash_free = [NoCrash EXCEPT !.users = [u \in AccountIds |-> NewRow]]

NextProgress ==
    \/ update_favorite_page_route
    \/ update_reading_streak_route
    \/ render_bookmarks
    \/ crash
    \/ midnight

SpecProgress == InitProgress /\ [][NextProgress]_vars

-----------------------------------------------------------------------------
(* Properties of the progress update (SpecProgress) *)

\* the text writes a non-negative integer: digits only, blanks around them
\* and a + before them allowed
NonNegativeInteger(text) ==
    LET t == Strip(text)
        digits == IF t # << >> /\ Head(t) = "+" THEN Tail(t) ELSE t
    IN digits # << >> /\ \A i \in 1..Len(digits) : digits[i] \in Digits

\* the step is the first part of the route, for a user who is logged in
RouteStep ==
    /\ route.pc = "idle"
    /\ last'.call.op = ProgressOp
    /\ LoggedIn(last'.call.session)

\* C14: Progress-update validation. The route rejects every current_page
\* that is not a non-negative integer, non-numeric text and negative
\* integers alike, with a validation error, and then changes neither the
\* favorites file nor the streak of the user.
C14_InvalidPageRejected ==
    [][(RouteStep /\ ~NonNegativeInteger(last'.call.current_page))
         => /\ last'.result = "400"
            /\ route' = Idle
            /\ favorites_json' = favorites_json
            /\ users' = users]_vars

\* the calls a request has made so far are the page update, then the streak
\* update
InOrder(calls) ==
    calls \in {<<"update_favorite_page">>,
               <<"update_favorite_page", "update_reading_streak">>}

\* C15: Ordering and unconditional streak update. In every accepted
\* progress update the page update on the favorites file comes first and
\* update_reading_streak second; the streak table changes only in that
\* second step, and the request reaches its answer only after both calls,
\* whether or not the ISBN was found in the user's favorites.
C15_PageThenStreak ==
    [][/\ route'.pc # "idle" => InOrder(route'.calls)
       /\ route'.pc = "update_streak" => route'.calls = <<"update_favorite_page">>
       /\ route'.pc = "render"
            => route'.calls = <<"update_favorite_page", "update_reading_streak">>
       /\ users' # users => (route.pc = "update_streak" /\ route'.pc = "render")
       /\ (RouteStep /\ last'.result = "page") => route'.pc = "update_streak"]_vars

\* the ISBN was not among the user's favorites, and the streak was updated
C15_Witness ==
    /\ route.pc = "render"
    /\ ~route.found
    /\ last.call = StreakCall(route.user_id)
    /\ last.result.streak_status = "continued"
    /\ users[route.user_id].last_read_date = Strftime(clock)

\* |a - b| <= 1
Within1(a, b) == a - b <= 1 /\ b - a <= 1

\* C16 as claimed: after a crash between the page update and the streak
\* update, with no reconciliation, the user's current_streak and
\* longest_streak differ from those of the run without the crash by at most
\* 1, whatever progress updates follow.
C16_CrashLosesAtMostOne ==
    crash_free.crashed # 0
    => LET u == crash_free.crashed
       IN /\ Within1(users[u].current_streak, crash_free.users[u].current_streak)
          /\ Within1(users[u].longest_streak, crash_free.users[u].longest_streak)

\* C16 as amended: what the crash loses is that request's streak update.
\* With a system date that does not go back, the user's longest_streak is
\* from then on at most that of the run without the crash; once a later
\* progress update has updated the streak, the two runs have the same
\* last_read_date and the user's current_streak is at most that of the run
\* without the crash; and when the first such update comes on the day of
\* the crash the two rows are equal. The difference is not bounded by 1.
C16_CrashNeverGains ==
    crash_free.crashed # 0
    => LET u == crash_free.crashed
           row == users[u]
           free == crash_free.users[u]
       IN /\ row.longest_streak <= free.longest_streak
          /\ crash_free.later # "none"
               => /\ row.last_read_date = free.last_read_date
                  /\ row.current_streak <= free.current_streak
          /\ crash_free.later = "same_day" => row = free

\* the day after the crash the streak restarts at 1, three behind the run
\* without the crash
C16_Witness ==
    /\ crash_free.crashed # 0
    /\ crash_free.later = "other_day"
    /\ users[crash_free.crashed].current_streak = 1
    /\ crash_free.users[crash_free.crashed].current_streak = 4

-----------------------------------------------------------------------------
(* POST /add_favorite next to the other routes that write favorites.json,  *)
(* on a file that is missing, written, cut short or unreadable; one        *)
(* request that writes per run (SpecAdd)                                   *)

\* request.form.get(key, default)
FormGet(form, key, default) == IF key \in DOMAIN form THEN form[key] ELSE default

\* all(values): no value is None or the empty string
All(values) == \A i \in 1..Len(values) : values[i] \notin {PyNone, ""}

\* a record without one of its keys
Drop(fields, key) == [k \in DOMAIN fields \ {key} |-> fields[k]]

\* the form fields of one selected book: all five given, no category
\* field, an empty category field, no title field
FormEntries ==
    UNION {{b, Drop(b, "category"), [b EXCEPT !.category = ""], Drop(b, "title")} :
             b \in {BookDetails(i, 1) : i \in Isbns}}

\* how many books a request selects
BatchSizes == {0, 1, 2}

\* the selected books of a request, in the order of selected_books
Forms == UNION {[1..n -> FormEntries] : n \in BatchSizes}

\* lines 201-221: the loop over selected_books, each save_favorite ending
\* as its entry of `outcomes`; gives the file, what each call wrote and the
\* response
RECURSIVE add_favorite_loop(_, _, _, _)
add_favorite_loop(file, user_id, books, outcomes) ==
    IF books = << >>
    THEN [file |-> file, wrote |-> << >>, result |-> "redirect"]
    ELSE LET form == books[1]
             title == FormGet(form, "title", PyNone)
             author == FormGet(form, "author", PyNone)
             isbn == FormGet(form, "isbn", PyNone)
             publication_year == FormGet(form, "publication_year", PyNone)
             category == FormGet(form, "category", "Uncategorized")
         IN IF ~All(<<title, author, isbn, publication_year>>)
            THEN [file |-> file, wrote |-> << >>,
                  result |-> "400 Missing data for one of the books."]
            ELSE LET book_details == [title |-> title, author |-> author,
                                      isbn |-> isbn,
                                      publication_year |-> publication_year,
                                      category |-> category]
                     c == [op |-> "save_favorite", user_id |-> user_id,
                           book |-> book_details]
                     wrote == IF Mem(c, load_all_favorites(file)).writes
                              THEN outcomes[1] ELSE "none"
                     rest == add_favorite_loop(Run(c, file, outcomes[1]), user_id,
                                               Tail(books), Tail(outcomes))
                 IN [file |-> rest.file, wrote |-> <<wrote>> \o rest.wrote,
                     result |-> rest.result]

\* POST /add_favorite
add_favorite ==
    /\ ncalls = 0
    /\ \E session \in Sessions, selected_books \in Forms :
         LET user_id == FormGet(session, "user_id", None)
             c == [op |-> "add_favorite", session |-> session,
                   selected_books |-> selected_books]
         IN IF selected_books = << >>
            THEN /\ last' = [call |-> c, wrote |-> << >>, again |-> FALSE,
                             result |-> "400 No books selected.", raised |-> "none"]
                 /\ favorites_json' = favorites_json
            ELSE \E outcomes \in [1..Len(selected_books) -> WriteOutcomes] :
                    LET r == add_favorite_loop(favorites_json, user_id,
                                               selected_books, outcomes)
                    IN /\ last' = [call |-> c, wrote |-> r.wrote, again |-> FALSE,
                                   result |-> r.result, raised |-> "none"]
                       /\ favorites_json' = r.file
    /\ ncalls' = ncalls + 1
    /\ StoreUnchanged

\* the files a request finds
AddFiles == {NoFile, SeedFile, EmptyFile, CorruptFile, Unreadable(SeedFile.data)}

InitAdd ==
    /\ favorites_json \in AddFiles
    /\ ncalls = 0
    /\ last = NoCall
    /\ NoThreads
    /\ NoUsers
    /\ NoRequest

NextAdd ==
    \/ add_favorite
    \/ learnings
    \/ remove_favorites_view

SpecAdd == InitAdd /\ [][NextAdd]_vars

-----------------------------------------------------------------------------
(* Properties of the routes that write favorites.json (SpecAdd) *)

\* every save_favorite of the request that went on to write, wrote
AllWritten(wrote) == \A i \in 1..Len(wrote) : wrote[i] \in {"ok", "none"}

\* the step is a POST /add_favorite none of whose rewrites failed
AddStep ==
    /\ last'.call.op = "add_favorite"
    /\ AllWritten(last'.wrote)

\* C23: Category default. A record created with an absent or blank
\* category (the field missing, or the empty string) is stored with the
\* category "Uncategorized"; no record of favorites.json has an empty or
\* missing category.
C23_CategoryDefaulted ==
    \A key \in DOMAIN favorites_json.data :
        \A i \in 1..Len(favorites_json.data[key]) :
            /\ "category" \in DOMAIN favorites_json.data[key][i]
            /\ favorites_json.data[key][i].category # ""

\* C24: Cross-user isolation of the favorite store. A write operation for
\* user u leaves the persisted collection of every other user as it was, in
\* every state of the document, also when the document could not be read or
\* parsed at load time.
C24_OtherUsersUntouched ==
    [][\A key \in DOMAIN favorites_json.data :
         (\/ /\ AddStep
             /\ LoggedIn(last'.call.session)
             /\ key # SessionKey(last'.call.session)
          \/ /\ last'.call.op \in WriteOps
             /\ last'.wrote \in {"ok", "none"}
             /\ key # Str(last'.call.user_id))
           => /\ key \in DOMAIN favorites_json'.data
              /\ favorites_json'.data[key] = favorites_json.data[key]]_vars

\* C28: No store mutation without an authenticated user. A request to
\* add_favorite, remove_favorites_view or learnings whose session has no
\* 'user_id' leaves favorites.json as it was, and no collection is ever
\* stored under the key of an absent user id.
C28_NoLoginNoMutation ==
    [][(/\ last'.call.op \in {"add_favorite", "learnings", "remove_favorites_view"}
        /\ ~LoggedIn(last'.call.session))
         => /\ favorites_json' = favorites_json
            /\ ~HasKey(favorites_json'.data, Str(None))]_vars

\* C29: Batch add is all-or-nothing on validation failure. When
\* add_favorite answers 400 because a selected book lacks its title,
\* author, ISBN or year, favorites.json is as it was before the request: no
\* earlier book of the batch has been saved.
C29_BatchAllOrNothing ==
    [][(/\ AddStep
        /\ LoggedIn(last'.call.session)
        /\ last'.result = "400 Missing data for one of the books.")
         => favorites_json' = favorites_json]_vars

-----------------------------------------------------------------------------
(* update_reading_streak called from two request threads (SpecRace). Each  *)
(* call opens its own connection, reads the row, and later updates and     *)
(* commits it; nothing in database.py keeps a second call from reading     *)
(* between the two.                                                        *)

\* the streaks a row can hold when the calls start
PriorStreaks == {1, 2}

\* the rows the calls can find: the row of a new user, or one written by
\* earlier calls, its date before, on or after the day of the calls
PriorRows ==
    {NewRow} \union
    {[last_read_date |-> Strftime(d), current_streak |-> c, longest_streak |-> l] :
       d \in {FirstDay, FirstDay + 1, FirstDay + 2},
       c \in PriorStreaks, l \in {2, 3}}

\* the users table: no account, or every account with a row
PriorTables == {<< >>} \union [AccountIds -> PriorRows]

RaceUnchanged ==
    UNCHANGED <<favorites_json, last, all_favorites, overlapped, route, crash_free>>

\* lines 225-235: thread t connects, selects the row and reads the date
streak_select(t) ==
    /\ pc[t] = "idle"
    /\ call[t] = NoCall
    /\ \E user_id \in AccountIds :
         LET c == [call |-> StreakCall(user_id), wrote |-> "-", again |-> FALSE,
                   seq |-> ncalls, before |-> users, today |-> clock]
         IN \/ /\ call' = [call EXCEPT ![t] =
                              [row |-> select_user(users, user_id)] @@ c]
               /\ pc' = [pc EXCEPT ![t] = "selected"]
            \* the SELECT raises sqlite3.Error
            \/ /\ call' = [call EXCEPT ![t] = [result |-> ErrorResult] @@ c]
               /\ pc' = [pc EXCEPT ![t] = "done"]
    /\ ncalls' = ncalls + 1
    /\ UNCHANGED <<users, clock>>
    /\ RaceUnchanged

\* lines 237-261: thread t computes the streak from the row it read, updates
\* the row and commits
streak_commit(t) ==
    /\ pc[t] = "selected"
    /\ LET c == call[t]
           r == streak_transition(c.row, c.today)
       IN \/ /\ users' = update_user(users, c.call.user_id, c.today, r)
             /\ call' = [call EXCEPT ![t] =
                            [result |-> [current_streak |-> r.current_streak,
                                         longest_streak |-> r.longest_streak,
                                         last_read_date |-> c.today,
                                         streak_status |-> r.streak_status]] @@ c]
          \* the UPDATE or the commit raises sqlite3.Error
          \/ /\ users' = users
             /\ call' = [call EXCEPT ![t] = [result |-> ErrorResult] @@ c]
    /\ pc' = [pc EXCEPT ![t] = "done"]
    /\ UNCHANGED <<ncalls, clock>>
    /\ RaceUnchanged

InitRace ==
    /\ favorites_json = NoFile
    /\ last = NoCall
    /\ ncalls = 0
    /\ NoThreads
    /\ users \in PriorTables
    /\ clock = FirstDay + 1
    /\ NoRequest

NextRace ==
    \/ \E t \in Threads : streak_select(t)
    \/ \E t \in Threads : streak_commit(t)
    \/ midnight

SpecRace == InitRace /\ [][NextRace]_vars

\* the table after thread t's call runs alone on `table`, the database
\* failing in it or not as it did for t
RunAlone(table, t) ==
    IF call[t].result.streak_status = "error" THEN table
    ELSE streak_update(table, call[t].call.user_id, call[t].today)

\* C25: Concurrent recordActivity for the same user on the same day. When
\* two calls of update_reading_streak for one user, made on one calendar
\* day, have both finished, however their reads and writes interleaved,
\* the users table is what running the two calls one after the other, from
\* the table the first of them found, leaves.
C25_ConcurrentEqualsSerial ==
    (/\ \A t \in Threads : pc[t] = "done"
     /\ call[1].call = call[2].call
     /\ call[1].today = call[2].today)
      => \E first, second \in Threads :
           /\ first # second
           /\ call[first].seq = 0
           /\ users = RunAlone(RunAlone(call[first].before, first), second)

\* both calls read the row of yesterday's streak of 2 before either wrote,
\* and both committed
C25_Witness ==
    /\ \A t \in Threads :
         /\ pc[t] = "done"
         /\ call[t].result.streak_status = "continued"
         /\ call[t].before = call[1].before
         /\ call[t].call = StreakCall(1)
    /\ users[1].current_streak = 3

====
